---------------------------- MODULE Spec2Model ----------------------------
(***************************************************************************)
(* Hybrid single-source closure (SSC12): src/SSC12.py.                     *)
(*                                                                         *)
(* Spec        the worker pool of Closure(): one producer process          *)
(*             (SourceVertexQueueAdder), cpuCount worker processes         *)
(*             (SSCWorker) and the coordinator loop of Closure().          *)
(* FairSpec    Spec with weak fairness on the steps of the processes (the  *)
(*             OS runs a runnable process); a failing put is never forced. *)
(*             It follows the runs under --alpha 1 --beta 1.               *)
(* EngineSpec  the two per-vertex engines SSC1 and SSC2 called on one      *)
(*             arbitrary vertex of an arbitrary graph, under arbitrary     *)
(*             thresholds.                                                 *)
(* RoundsSpec  the two engines without thresholds on somewhat larger       *)
(*             graphs, to follow SSC2 round by round.                      *)
(*                                                                         *)
(* A step of a process is one access to a queue or to the producer's exit  *)
(* code together with the local computation that follows it: SSC1 and SSC2 *)
(* touch nothing but the read-only adjacentLookup and the caller's own     *)
(* buffers, so a call is one step.                                         *)
(***************************************************************************)
EXTENDS Integers, Sequences, FiniteSets, TLC

\* ------------------------------------------------------------------ bounds
\* Vertex ids of the input graphs are drawn from 0..MaxVertexId.
MaxVertexId == 3
\* The input graphs have at most MaxEdges distinct edges.
MaxEdges == 3
\* multiprocessing.cpu_count() is drawn from 1..MaxCpu.
MaxCpu == 2
\* EngineSpec draws each threshold from 1..MaxThreshold and "no limit".
MaxThreshold == 3
\* The sequences of vertices handed to one worker have at most MaxHanded
\* vertices.
MaxHanded == 2
\* RoundsSpec also runs the engines on graphs of at most MaxRoundEdges
\* edges over the vertex ids 0..MaxRoundVertexId.
MaxRoundEdges == 4
MaxRoundVertexId == 4

\* ----------------------------------------------------------- Python values
\* Python's None, and the int / set values that share a variable with it.
None == [tag |-> "None"]
PyInt(i) == [tag |-> "int", val |-> i]
PySet(S) == [tag |-> "set", val |-> S]
\* IsNone as the truth test "not x": 0 counts as None.
IsFalsy(x) == x.tag = "None" \/ (x.tag = "int" /\ x.val = 0)
\* x is None
IsNone(x) == x.tag = "None"

\* A Fraction num/den is the pair <<num, den>>, den > 0 (--alpha, --beta).
Frac(num, den) == <<num, den>>
\* n / f for an int n and a positive Fraction f (SSC12.py:175-176).
IntDivFrac(n, f) == Frac(n * f[2], f[1])
\* IntGtFrac with the comparison turned round: c < t.
IntLtFrac(c, t) == c * t[2] < t[1]

\* IntGtFrac with >= for >: a cost equal to the threshold counts too.
IntGeqFrac(c, t) == c * t[2] >= t[1]

\* c > t for an int c and a Fraction t (SSC12.py:258).
IntGtFrac(c, t) == c * t[2] > t[1]

\* The values --alpha and --beta are drawn from (1/8 and 1/128 are the
\* defaults of SSC12.py:54-55; with 1 the threshold is the vertex count).
Alphas == {Frac(1, 8), Frac(1, 1)}
Betas == {Frac(1, 128), Frac(1, 1)}
\* A threshold that no cost exceeds.
Unlimited == Frac(1, 0)
\* The thresholds the engines are called with in EngineSpec.
EngineThresholds == {Frac(k, 1) : k \in 1..MaxThreshold} \cup {Unlimited}

\* adjacentLookup.get(vertex, default): the dict is a function whose DOMAIN
\* holds only the vertices that have an outgoing edge.
DictGet(dict, key, default) == IF key \in DOMAIN dict THEN dict[key] ELSE default

SetMax(S) == CHOOSE m \in S : \A x \in S : x <= m
SetMin(S) == CHOOSE m \in S : \A x \in S : m <= x

\* ------------------------------------------------------------ input graphs
VertexIds == 0..MaxVertexId
AllEdges == VertexIds \X VertexIds

RECURSIVE EdgeSetsUpTo(_)
\* All sets of at most k edges.
EdgeSetsUpTo(k) ==
    IF k = 0 THEN {{}}
    ELSE LET prev == EdgeSetsUpTo(k - 1)
         IN prev \cup {E \cup {e} : E \in prev, e \in AllEdges}

\* EngineSpec calls the engines on every graph of at most MaxEdges edges.
Graphs == EdgeSetsUpTo(MaxEdges)
\* Spec runs the pool on the graphs among them whose edges never lead to a
\* smaller id: the acyclic graphs (each up to a renaming of its vertices),
\* with or without self-loops.
PoolGraphs == {E \in Graphs : \A e \in E : e[1] <= e[2]}

\* ---------------------------------------------------------- ParseInputfile
\* ParseInputfile without "maxVertexNumber += 1" (SSC12.py:155).
ParseInputfileNoIncrement(E) ==
    LET srcs == {e[1] : e \in E}
        tgts == {e[2] : e \in E}
        maxV == IF E = {} THEN -1 ELSE SetMax(srcs \cup tgts)
        lookup == [v \in srcs |-> {e[2] : e \in {x \in E : x[1] = v}}]
        uniqueSourceVertices == srcs \ tgts
        uniqueTargetVertexCount == Cardinality(tgts \ srcs)
        uniqueVertexCount == Cardinality(uniqueSourceVertices) + uniqueTargetVertexCount
    IN  [exit |-> (maxV <= 0 \/ uniqueVertexCount <= 1 \/ Cardinality(srcs) = 0),
         adjacentLookup |-> lookup,
         sourceVertices |-> uniqueSourceVertices,
         vertexCount |-> uniqueVertexCount,
         maxVertexNumber |-> maxV]

\* The four values ParseInputfile returns for the edge set E of the input
\* file, and whether it leaves through exit(1) instead (SSC12.py:151-153).
ParseInputfile(E) ==
    LET srcs == {e[1] : e \in E}
        tgts == {e[2] : e \in E}
        maxV == IF E = {} THEN -1 ELSE SetMax(srcs \cup tgts)
        lookup == [v \in srcs |-> {e[2] : e \in {x \in E : x[1] = v}}]
        uniqueSourceVertices == srcs \ tgts
        uniqueTargetVertexCount == Cardinality(tgts \ srcs)
        uniqueVertexCount == Cardinality(uniqueSourceVertices) + uniqueTargetVertexCount
    IN  [exit |-> (maxV <= 0 \/ uniqueVertexCount <= 1 \/ Cardinality(srcs) = 0),
         adjacentLookup |-> lookup,
         sourceVertices |-> uniqueSourceVertices,
         vertexCount |-> uniqueVertexCount,
         maxVertexNumber |-> maxV + 1]

\* ------------------------------------------------------------------- SSC1
RECURSIVE SumOutDegree(_, _)
\* The loop of ComputeSSC1Cost: the out-degrees of the frontier, summed.
SumOutDegree(lookup, S) ==
    IF S = {} THEN 0
    ELSE LET vertex == CHOOSE x \in S : TRUE
             adjacent == DictGet(lookup, vertex, None)
         IN (IF vertex \notin DOMAIN lookup THEN 0 ELSE Cardinality(adjacent))
            + SumOutDegree(lookup, S \ {vertex})

\* ComputeSSC1Cost with the alternative of the comment at SSC12.py:274-276:
\* "costSmallDelta += len(tc)", the term outside of the summation.
ComputeSSC1CostOutside(lookup, bigDelta, tc) ==
    <<SumOutDegree(lookup, bigDelta) + Cardinality(tc),
      Cardinality(tc) + Cardinality(bigDelta)>>

\* (costSmallDelta, costBigDelta)
ComputeSSC1Cost(lookup, bigDelta, tc) ==
    LET costSmallDelta == SumOutDegree(lookup, bigDelta)
                          + Cardinality(tc) * Cardinality(bigDelta)
        costBigDelta == Cardinality(tc) + Cardinality(bigDelta)
    IN <<costSmallDelta, costBigDelta>>

\* GetAllAdjacentNodesFromSet with "resultSet = adjacentSet" for the union:
\* only the last vertex visited contributes.
GetAdjacentOfLastOnly(lookup, inputSet) ==
    IF inputSet = {} THEN {} ELSE DictGet(lookup, SetMax(inputSet), {})

GetAllAdjacentNodesFromSet(lookup, inputSet) ==
    UNION {DictGet(lookup, vertex, {}) : vertex \in inputSet}

RECURSIVE SSC1Loop(_, _, _, _, _)
\* The while loop of SSC1 from a given tc and frontier.
SSC1Loop(lookup, tc, bigDelta, aThreshold, bThreshold) ==
    IF Cardinality(bigDelta) = 0 THEN PySet(tc)
    ELSE LET costs == ComputeSSC1Cost(lookup, bigDelta, tc)
         IN IF IntGtFrac(costs[1], aThreshold) \/ IntGtFrac(costs[2], bThreshold)
            THEN None
            ELSE LET smallDelta == GetAllAdjacentNodesFromSet(lookup, bigDelta)
                     newBig == smallDelta \ tc
                 IN SSC1Loop(lookup, tc \cup newBig, newBig, aThreshold, bThreshold)

\* SSC1: the closure of sourceVertex as PySet(tc), or None on a threshold
\* violation.
SSC1(lookup, sourceVertex, aThreshold, bThreshold) ==
    SSC1Loop(lookup, {sourceVertex}, {sourceVertex}, aThreshold, bThreshold)

RECURSIVE ExpansionSteps(_, _, _)
\* The values of (tc, bigDeltaTC) at the start of the successive iterations
\* of SSC1's while loop when no threshold stops it (SSC12.py:256, 262-263).
ExpansionSteps(lookup, tc, bigDelta) ==
    IF Cardinality(bigDelta) = 0 THEN <<>>
    ELSE LET smallDelta == GetAllAdjacentNodesFromSet(lookup, bigDelta)
             newBig == smallDelta \ tc
         IN <<[tc |-> tc, bigDeltaTC |-> bigDelta]>>
            \o ExpansionSteps(lookup, tc \cup newBig, newBig)

\* The test of SSC12.py:258 on the costs of one iteration.
ThresholdsViolated(lookup, step, aThreshold, bThreshold) ==
    LET costs == ComputeSSC1Cost(lookup, step.bigDeltaTC, step.tc)
    IN IntGtFrac(costs[1], aThreshold) \/ IntGtFrac(costs[2], bThreshold)

\* ------------------------------------------------------------------- SSC2
\* array('i', [-1] * n) and bitarray(n) are functions on 0..n-1.
\* An allocation of a single entry whatever the graph's size.
EmptyArrayOneSlot(n) == [i \in 0..0 |-> -1]
EmptyArray(n) == [i \in 0..(n - 1) |-> -1]
BitArrays(n) == [0..(n - 1) -> BOOLEAN]
InRange(a, i) == i \in DOMAIN a

\* The order in which a for loop visits a Python set is not specified: a
\* visiting order is a sequence holding every vertex id once, and a set is
\* visited in the order its elements have in it.
Ascending(n) == [i \in 1..n |-> i - 1]
Descending(n) == [i \in 1..n |-> n - i]
IterOrders(n) == {Ascending(n), Descending(n)}
IterSeq(S, order) == SelectSeq(order, LAMBDA x : x \in S)

RECURSIVE SSC2Adjacent(_, _)
\* The inner for loop (SSC12.py:294-298) over the neighbours still to visit.
\* st = [small, d, l, raised]; raised is an IndexError.
SSC2Adjacent(st, nodes) ==
    IF nodes = <<>> \/ st.raised THEN st
    ELSE LET adjacentNode == Head(nodes)
         IN IF ~InRange(st.d, adjacentNode) THEN [st EXCEPT !.raised = TRUE]
            ELSE IF st.d[adjacentNode] THEN SSC2Adjacent(st, Tail(nodes))
            ELSE IF ~InRange(st.small, st.l)
                 THEN [st EXCEPT !.d[adjacentNode] = TRUE, !.raised = TRUE]
            ELSE SSC2Adjacent([st EXCEPT !.d[adjacentNode] = TRUE,
                                         !.small[st.l] = adjacentNode,
                                         !.l = st.l + 1],
                              Tail(nodes))

RECURSIVE SSC2ScanAliased(_, _, _, _, _, _)
\* SSC2Scan reading entry i from smallDeltaTC, the buffer that is being
\* appended to, instead of bigDeltaTC.
SSC2ScanAliased(lookup, big, i, L, st, order) ==
    IF i >= L \/ st.raised THEN st
    ELSE IF ~InRange(st.small, i) THEN [st EXCEPT !.raised = TRUE]
    ELSE LET Z == st.small[i]
             Z_Adjacent == DictGet(lookup, Z, {})
         IN SSC2ScanAliased(lookup, big, i + 1, L,
                            SSC2Adjacent(st, IterSeq(Z_Adjacent, order)), order)

RECURSIVE SSC2Scan(_, _, _, _, _, _)
\* The for loop over the L active entries of bigDeltaTC, from entry i
\* (SSC12.py:290-298).
SSC2Scan(lookup, big, i, L, st, order) ==
    IF i >= L \/ st.raised THEN st
    ELSE IF ~InRange(big, i) THEN [st EXCEPT !.raised = TRUE]
    ELSE LET Z == big[i]
             Z_Adjacent == DictGet(lookup, Z, {})
         IN SSC2Scan(lookup, big, i + 1, L,
                     SSC2Adjacent(st, IterSeq(Z_Adjacent, order)), order)

RECURSIVE SSC2Loop(_, _, _, _, _)
\* The while loop (SSC12.py:288-300); bigDeltaTC = smallDeltaTC[:] copies.
SSC2Loop(lookup, big, L, st, order) ==
    IF L = 0 \/ st.raised THEN st
    ELSE LET after == SSC2Scan(lookup, big, 0, L, [st EXCEPT !.l = 0], order)
         IN SSC2Loop(lookup, after.small, after.l, after, order)

RECURSIVE SSC2Rounds(_, _, _, _, _)
\* The rounds of the while loop (SSC12.py:288-300), one record per round:
\* bigDeltaTC, L and d as the round finds them, and l (the number of
\* appends to smallDeltaTC) and smallDeltaTC as it leaves them.
SSC2Rounds(lookup, big, L, st, order) ==
    IF L = 0 \/ st.raised THEN <<>>
    ELSE LET after == SSC2Scan(lookup, big, 0, L, [st EXCEPT !.l = 0], order)
         IN <<[bigDeltaTC |-> big, L |-> L, d |-> st.d, l |-> after.l,
               smallDeltaTC |-> after.small, raised |-> after.raised]>>
            \o SSC2Rounds(lookup, after.small, after.l, after, order)

\* SSC2 without d.setall(False): the bits the buffer held on entry stay set.
SSC2NoClear(lookup, sourceVertex, bigDeltaTC, smallDeltaTC, d, maxV, order) ==
    IF ~InRange(d, sourceVertex) \/ ~InRange(bigDeltaTC, 0)
    THEN [raised |-> TRUE, tc |-> {}, bigDeltaTC |-> bigDeltaTC,
          smallDeltaTC |-> smallDeltaTC, d |-> d]
    ELSE LET end == SSC2Loop(lookup, [bigDeltaTC EXCEPT ![0] = sourceVertex], 1,
                             [small |-> smallDeltaTC,
                              d |-> [d EXCEPT ![sourceVertex] = TRUE],
                              l |-> 0, raised |-> FALSE], order)
         IN [raised |-> end.raised,
             tc |-> {i \in 0..(maxV - 1) : InRange(end.d, i) /\ end.d[i]},
             bigDeltaTC |-> [bigDeltaTC EXCEPT ![0] = sourceVertex],
             smallDeltaTC |-> end.small,
             d |-> end.d]

\* SSC2 on the caller's three buffers: the set returned (tc), the buffers
\* as the call leaves them, and whether it raised an IndexError instead.
SSC2(lookup, sourceVertex, bigDeltaTC, smallDeltaTC, d, maxV, order) ==
    IF ~InRange(d, sourceVertex) \/ ~InRange(bigDeltaTC, 0)
    THEN [raised |-> TRUE, tc |-> {}, bigDeltaTC |-> bigDeltaTC,
          smallDeltaTC |-> smallDeltaTC, d |-> d]
    ELSE LET d0 == [[i \in DOMAIN d |-> FALSE] EXCEPT ![sourceVertex] = TRUE]
             big0 == [bigDeltaTC EXCEPT ![0] = sourceVertex]
             end == SSC2Loop(lookup, big0, 1,
                             [small |-> smallDeltaTC, d |-> d0, l |-> 0,
                              raised |-> FALSE], order)
         IN [raised |-> end.raised \/ \E i \in 0..(maxV - 1) : ~InRange(end.d, i),
             tc |-> {i \in 0..(maxV - 1) : InRange(end.d, i) /\ end.d[i]},
             bigDeltaTC |-> big0,
             smallDeltaTC |-> end.small,
             d |-> end.d]

\* ------------------------------------------- the engines and the dict
\* dict.setdefault in the place of dict.get: a missing key is inserted with
\* an empty successor set.
StoreAfterSetDefault(lookup, key) ==
    IF key \in DOMAIN lookup THEN lookup
    ELSE [k \in DOMAIN lookup \cup {key} |-> IF k = key THEN {} ELSE lookup[k]]

\* What adjacentLookup.get(key, default) leaves of the dict (SSC12.py:270,
\* 293, 310): get inserts nothing for a missing key, and the set it returns
\* is only measured (len), iterated, or passed to union, which builds a new
\* set.
StoreAfterGet(lookup, key) == lookup

RECURSIVE StoreAfterGets(_, _)
\* The dict after one get per vertex of a for loop over the set keys.
StoreAfterGets(lookup, keys) ==
    IF keys = {} THEN lookup
    ELSE LET vertex == CHOOSE x \in keys : TRUE
         IN StoreAfterGets(StoreAfterGet(lookup, vertex), keys \ {vertex})

RECURSIVE SSC1StoreLoop(_, _, _, _, _)
\* The dict after SSC1's while loop: ComputeSSC1Cost and, when no threshold
\* is violated, GetAllAdjacentNodesFromSet each look up the whole frontier.
SSC1StoreLoop(lookup, tc, bigDelta, aThreshold, bThreshold) ==
    IF Cardinality(bigDelta) = 0 THEN lookup
    ELSE LET costs == ComputeSSC1Cost(lookup, bigDelta, tc)
             afterCost == StoreAfterGets(lookup, bigDelta)
         IN IF IntGtFrac(costs[1], aThreshold) \/ IntGtFrac(costs[2], bThreshold)
            THEN afterCost
            ELSE LET smallDelta == GetAllAdjacentNodesFromSet(afterCost, bigDelta)
                     afterAdjacent == StoreAfterGets(afterCost, bigDelta)
                     newBig == smallDelta \ tc
                 IN SSC1StoreLoop(afterAdjacent, tc \cup newBig, newBig,
                                  aThreshold, bThreshold)

\* The dict as a call of SSC1 leaves it.
SSC1Store(lookup, sourceVertex, aThreshold, bThreshold) ==
    SSC1StoreLoop(lookup, {sourceVertex}, {sourceVertex}, aThreshold, bThreshold)

RECURSIVE SSC2StoreRounds(_, _)
\* The dict after the rounds of SSC2: each round looks up bigDeltaTC[0..L-1].
SSC2StoreRounds(lookup, rounds) ==
    IF rounds = <<>> THEN lookup
    ELSE LET r == Head(rounds)
             keys == {r.bigDeltaTC[i] : i \in {j \in 0..(r.L - 1) : InRange(r.bigDeltaTC, j)}}
         IN SSC2StoreRounds(StoreAfterGets(lookup, keys), Tail(rounds))

\* The dict as a call of SSC2 leaves it.
SSC2Store(lookup, sourceVertex, bigDeltaTC, smallDeltaTC, d, order) ==
    IF ~InRange(d, sourceVertex) \/ ~InRange(bigDeltaTC, 0) THEN lookup
    ELSE LET d0 == [[i \in DOMAIN d |-> FALSE] EXCEPT ![sourceVertex] = TRUE]
             big0 == [bigDeltaTC EXCEPT ![0] = sourceVertex]
         IN SSC2StoreRounds(lookup,
                            SSC2Rounds(lookup, big0, 1,
                                       [small |-> smallDeltaTC, d |-> d0, l |-> 0,
                                        raised |-> FALSE], order))

\* ------------------------------------------------------------ reachability
RECURSIVE ReachWithin(_, _, _)
\* The vertices that a directed path of at most k edges of E joins to s.
ReachWithin(E, s, k) ==
    IF k = 0 THEN {s}
    ELSE LET R == ReachWithin(E, s, k - 1)
         IN R \cup {e[2] : e \in {x \in E : x[1] \in R}}

\* The vertices reachable from s by a directed path of length >= 0: a
\* shortest path visits no vertex twice, so it has at most as many edges as
\* there are vertices other than s.
Reach(E, s) == ReachWithin(E, s, Cardinality({e[1] : e \in E} \cup {e[2] : e \in E}))

\* ------------------------------------------------------------------ state
VARIABLES
    \* What Main hands to Closure (SSC12.py:381, 391): the edges of the input
    \* file, ParseInputfile's four results, --alpha, --beta, and
    \* multiprocessing.cpu_count().
    edges, adjacentLookup, sourceVertices, nrOfVertices, maxVertexNumber,
    alpha, beta, cpu,
    \* Closure: its position, its locals and the two queues.
    pc, cpuCount, sourceVertexCount, alphaThreshold, betaThreshold,
    closureSet, doneCounter, vertexQueue, SSCQueue,
    \* SourceVertexQueueAdder: its position, the source vertices its for loop
    \* has not reached yet, the sentinels it has put, and its exitcode as the
    \* parent process reads it.
    adderPc, adderTodo, adderI, exitcode,
    \* SSCWorker, per worker process: its position, and its locals.
    wPc, vertex, thresholdExceeded, bigDeltaTC, smallDeltaTC, d,
    \* History, per worker: the work items it has dequeued, and the results
    \* it has put with the vertex and the engine that produced each.
    taken, pushed,
    \* EngineSpec: the vertex the engines are called on and what SSC1 and
    \* SSC2 returned for it.
    engSource, engSSC1, engSSC2

inputVars == <<edges, adjacentLookup, sourceVertices, nrOfVertices, maxVertexNumber,
               alpha, beta, cpu, cpuCount, sourceVertexCount, alphaThreshold,
               betaThreshold>>
\* inputVars without the dict.
inputRest == <<edges, sourceVertices, nrOfVertices, maxVertexNumber, alpha, beta, cpu,
               cpuCount, sourceVertexCount, alphaThreshold, betaThreshold>>
coordVars == <<pc, closureSet, doneCounter>>
adderVars == <<adderPc, adderTodo, adderI, exitcode>>
workerVars == <<wPc, vertex, thresholdExceeded, bigDeltaTC, smallDeltaTC, d>>
histVars == <<taken, pushed>>
engVars == <<engSource, engSSC1, engSSC2>>
vars == <<inputVars, coordVars, vertexQueue, SSCQueue, adderVars, workerVars,
          histVars, engVars>>

WorkerIds == 1..MaxCpu
Workers == {w \in WorkerIds : w <= cpuCount}
Unset == [tag |-> "unset"]
Min(a, b) == IF a <= b THEN a ELSE b

\* -------------------------------------------------------------------- Init
\* The inputs: one graph, one pair of cutoffs, one processor count.
InitInputs(E, parsed) ==
    /\ edges = E
    /\ adjacentLookup = parsed.adjacentLookup
    /\ sourceVertices = parsed.sourceVertices
    /\ nrOfVertices = parsed.vertexCount
    /\ maxVertexNumber = parsed.maxVertexNumber

\* No process of the pool exists.
NoPool ==
    /\ cpuCount = 0
    /\ sourceVertexCount = 0
    /\ closureSet = {}
    /\ doneCounter = 0
    /\ vertexQueue = <<>>
    /\ SSCQueue = <<>>
    /\ adderPc = "none"
    /\ adderTodo = {}
    /\ adderI = 0
    /\ exitcode = None
    /\ wPc = [w \in WorkerIds |-> "none"]
    /\ vertex = [w \in WorkerIds |-> None]
    /\ thresholdExceeded = [w \in WorkerIds |-> FALSE]
    /\ bigDeltaTC = [w \in WorkerIds |-> <<>>]
    /\ smallDeltaTC = [w \in WorkerIds |-> <<>>]
    /\ d = [w \in WorkerIds |-> <<>>]
    /\ taken = [w \in WorkerIds |-> <<>>]
    /\ pushed = [w \in WorkerIds |-> <<>>]

EngineIdle ==
    /\ engSource = None
    /\ engSSC1 = Unset
    /\ engSSC2 = Unset

\* Main up to the coordinator loop: ParseInputfile either exits, or Closure
\* is called, sets up the queues and thresholds and starts the workers and
\* the producer (SSC12.py:164-190).
Init ==
    /\ \E E \in PoolGraphs : InitInputs(E, ParseInputfile(E))
    /\ alpha \in Alphas
    /\ beta \in Betas
    /\ alphaThreshold = IntDivFrac(nrOfVertices, alpha)
    /\ betaThreshold = IntDivFrac(nrOfVertices, beta)
    /\ cpu \in 1..MaxCpu
    /\ EngineIdle
    /\ IF ParseInputfile(edges).exit
       THEN pc = "parse_exit" /\ NoPool
       ELSE /\ pc = "loop"
            /\ cpuCount = Min(cpu, Cardinality(sourceVertices))
            /\ sourceVertexCount = Cardinality(sourceVertices)
            /\ closureSet = {}
            /\ doneCounter = 0
            /\ vertexQueue = <<>>
            /\ SSCQueue = <<>>
            /\ adderPc = IF sourceVertices = {} THEN "sentinels" ELSE "vertices"
            /\ adderTodo = sourceVertices
            /\ adderI = 0
            /\ exitcode = None
            /\ wPc = [w \in WorkerIds |-> IF w <= cpuCount THEN "get1" ELSE "none"]
            /\ vertex = [w \in WorkerIds |-> None]
            /\ thresholdExceeded = [w \in WorkerIds |-> FALSE]
            /\ bigDeltaTC = [w \in WorkerIds |-> <<>>]
            /\ smallDeltaTC = [w \in WorkerIds |-> <<>>]
            /\ d = [w \in WorkerIds |-> <<>>]
            /\ taken = [w \in WorkerIds |-> <<>>]
            /\ pushed = [w \in WorkerIds |-> <<>>]

\* ------------------------------------------------- SourceVertexQueueAdder
\* vertexQueue.put(sourceVertex) for the next vertex of the for loop; the
\* loop visits the set in no specified order (SSC12.py:207-209).
AdderPutVertex ==
    /\ adderPc = "vertices"
    /\ \E sourceVertex \in adderTodo :
          /\ vertexQueue' = Append(vertexQueue, PyInt(sourceVertex))
          /\ adderTodo' = adderTodo \ {sourceVertex}
          /\ adderPc' = IF adderTodo' = {} THEN "sentinels" ELSE "vertices"
    /\ UNCHANGED <<inputVars, coordVars, SSCQueue, adderI, exitcode, workerVars,
                   histVars, engVars>>

\* AdderPutSentinel without waiting for the end of the loop over the source
\* vertices: a sentinel may be put while vertices are still to be put.
AdderPutSentinelEarly ==
    /\ adderPc \in {"vertices", "sentinels"}
    /\ adderI < cpuCount
    /\ vertexQueue' = Append(vertexQueue, None)
    /\ adderI' = adderI + 1
    /\ UNCHANGED <<inputVars, coordVars, SSCQueue, adderPc, adderTodo, exitcode,
                   workerVars, histVars, engVars>>

\* vertexQueue.put(None), once per worker (SSC12.py:211-213).
AdderPutSentinel ==
    /\ adderPc = "sentinels"
    /\ adderI < cpuCount
    /\ vertexQueue' = Append(vertexQueue, None)
    /\ adderI' = adderI + 1
    /\ UNCHANGED <<inputVars, coordVars, SSCQueue, adderPc, adderTodo, exitcode,
                   workerVars, histVars, engVars>>

\* The function returns and the process ends with exit code 0.
AdderReturn ==
    /\ adderPc = "sentinels"
    /\ adderI >= cpuCount
    /\ adderPc' = "done"
    /\ exitcode' = PyInt(0)
    /\ UNCHANGED <<inputVars, coordVars, vertexQueue, SSCQueue, adderTodo, adderI,
                   workerVars, histVars, engVars>>

\* A put raises Full: the handler closes the queue and the process ends
\* with exit code 1 (SSC12.py:214-218). Nothing is put.
AdderFull ==
    /\ \/ adderPc = "vertices"
       \/ adderPc = "sentinels" /\ adderI < cpuCount
    /\ adderPc' = "failed"
    /\ exitcode' = PyInt(1)
    /\ UNCHANGED <<inputVars, coordVars, vertexQueue, SSCQueue, adderTodo, adderI,
                   workerVars, histVars, engVars>>

\* -------------------------------------------------------------- SSCWorker
\* What one result put by a worker is remembered as.
Push(v, engine, ssc) == [vertex |-> v, engine |-> engine, ssc |-> ssc]

\* vertex = vertexQueue.get(block=True) in the first loop (SSC12.py:225-226,
\* 234-236): a vertex is handed to SSC1, the sentinel ends the worker.
WorkerGet1(w) ==
    /\ wPc[w] = "get1"
    /\ vertexQueue # <<>>
    /\ vertex' = [vertex EXCEPT ![w] = Head(vertexQueue)]
    /\ vertexQueue' = Tail(vertexQueue)
    /\ taken' = [taken EXCEPT ![w] = Append(@, Head(vertexQueue))]
    /\ wPc' = [wPc EXCEPT ![w] = IF ~IsNone(Head(vertexQueue)) THEN "ssc1" ELSE "done"]
    /\ UNCHANGED <<inputVars, coordVars, SSCQueue, adderVars, thresholdExceeded,
                   bigDeltaTC, smallDeltaTC, d, pushed, engVars>>

\* WorkerSSC1 that goes on to the next work item after a threshold violation
\* instead of recomputing the vertex.
WorkerSSC1Drop(w) ==
    /\ wPc[w] = "ssc1"
    /\ \E ssc \in {SSC1(adjacentLookup, vertex[w].val, alphaThreshold, betaThreshold)} :
          IF ~IsNone(ssc)
          THEN /\ SSCQueue' = Append(SSCQueue, ssc)
               /\ pushed' = [pushed EXCEPT ![w] = Append(@, Push(vertex[w].val, "SSC1", ssc))]
               /\ wPc' = [wPc EXCEPT ![w] = "get1"]
               /\ UNCHANGED thresholdExceeded
          ELSE /\ thresholdExceeded' = [thresholdExceeded EXCEPT ![w] = TRUE]
               /\ wPc' = [wPc EXCEPT ![w] = "get2"]
               /\ UNCHANGED <<SSCQueue, pushed>>
    /\ UNCHANGED <<inputVars, coordVars, vertexQueue, adderVars, vertex,
                   bigDeltaTC, smallDeltaTC, d, taken, engVars>>

\* WorkerSSC1 with SSCQueue.put(ssc) before the test "ssc is not None".
WorkerSSC1PutNone(w) ==
    /\ wPc[w] = "ssc1"
    /\ LET ssc == SSC1(adjacentLookup, vertex[w].val, alphaThreshold, betaThreshold)
       IN /\ SSCQueue' = Append(SSCQueue, ssc)
          /\ IF ~IsNone(ssc)
             THEN /\ pushed' = [pushed EXCEPT ![w] =
                                   Append(@, Push(vertex[w].val, "SSC1", ssc))]
                  /\ wPc' = [wPc EXCEPT ![w] = "get1"]
                  /\ UNCHANGED thresholdExceeded
             ELSE /\ thresholdExceeded' = [thresholdExceeded EXCEPT ![w] = TRUE]
                  /\ wPc' = [wPc EXCEPT ![w] = "switch"]
                  /\ UNCHANGED pushed
    /\ UNCHANGED <<inputVars, coordVars, vertexQueue, adderVars, vertex,
                   bigDeltaTC, smallDeltaTC, d, taken, engVars>>

\* WorkerSSC1 that sets thresholdExceeded and leaves the first loop whether
\* or not SSC1 returned a closure.
WorkerSSC1SwitchAnyway(w) ==
    /\ wPc[w] = "ssc1"
    /\ \E ssc \in {SSC1(adjacentLookup, vertex[w].val, alphaThreshold, betaThreshold)} :
          IF ~IsNone(ssc)
          THEN /\ SSCQueue' = Append(SSCQueue, ssc)
               /\ pushed' = [pushed EXCEPT ![w] = Append(@, Push(vertex[w].val, "SSC1", ssc))]
               /\ thresholdExceeded' = [thresholdExceeded EXCEPT ![w] = TRUE]
               /\ wPc' = [wPc EXCEPT ![w] = "get2"]
          ELSE /\ thresholdExceeded' = [thresholdExceeded EXCEPT ![w] = TRUE]
               /\ wPc' = [wPc EXCEPT ![w] = "switch"]
               /\ UNCHANGED <<SSCQueue, pushed>>
    /\ UNCHANGED <<inputVars, coordVars, vertexQueue, adderVars, vertex,
                   bigDeltaTC, smallDeltaTC, d, taken, engVars>>

\* ssc = SSC1(...): the closure is put on SSCQueue, or thresholdExceeded is
\* set and the first loop is left (SSC12.py:227-233).
WorkerSSC1(w) ==
    /\ wPc[w] = "ssc1"
    /\ \E ssc \in {SSC1(adjacentLookup, vertex[w].val, alphaThreshold, betaThreshold)} :
          IF ~IsNone(ssc)
          THEN /\ SSCQueue' = Append(SSCQueue, ssc)
               /\ pushed' = [pushed EXCEPT ![w] = Append(@, Push(vertex[w].val, "SSC1", ssc))]
               /\ wPc' = [wPc EXCEPT ![w] = "get1"]
               /\ UNCHANGED thresholdExceeded
          ELSE /\ thresholdExceeded' = [thresholdExceeded EXCEPT ![w] = TRUE]
               /\ wPc' = [wPc EXCEPT ![w] = "switch"]
               /\ UNCHANGED <<SSCQueue, pushed>>
    /\ UNCHANGED <<inputVars, coordVars, vertexQueue, adderVars, vertex,
                   bigDeltaTC, smallDeltaTC, d, taken, engVars>>

\* The call SSCQueue.put(SSC2(...)) of worker w on its buffers big, small
\* and bits; an IndexError ends the worker process.
WorkerCallSSC2(w, big, small, bits, order) ==
    \E r \in {SSC2(adjacentLookup, vertex[w].val, big, small, bits, maxVertexNumber, order)} :
       /\ bigDeltaTC' = [bigDeltaTC EXCEPT ![w] = r.bigDeltaTC]
       /\ smallDeltaTC' = [smallDeltaTC EXCEPT ![w] = r.smallDeltaTC]
       /\ d' = [d EXCEPT ![w] = r.d]
       /\ IF r.raised
          THEN /\ wPc' = [wPc EXCEPT ![w] = "raised"]
               /\ UNCHANGED <<SSCQueue, pushed>>
          ELSE /\ SSCQueue' = Append(SSCQueue, PySet(r.tc))
               /\ pushed' = [pushed EXCEPT ![w] =
                                Append(@, Push(vertex[w].val, "SSC2", PySet(r.tc)))]
               /\ wPc' = [wPc EXCEPT ![w] = "get2"]

\* The switch (SSC12.py:236-242): the two index arrays are allocated filled
\* with -1, the bit array is allocated uninitialised, and SSC2 recomputes
\* the vertex SSC1 gave up on.
WorkerSwitch(w) ==
    /\ wPc[w] = "switch"
    /\ thresholdExceeded[w]
    /\ \E bits \in BitArrays(maxVertexNumber), order \in IterOrders(maxVertexNumber) :
          WorkerCallSSC2(w, EmptyArray(maxVertexNumber), EmptyArray(maxVertexNumber),
                         bits, order)
    /\ UNCHANGED <<inputVars, coordVars, vertexQueue, adderVars, vertex,
                   thresholdExceeded, taken, engVars>>

\* WorkerGet2 handing the vertex to SSC1 again.
WorkerGet2ToSSC1(w) ==
    /\ wPc[w] = "get2"
    /\ vertexQueue # <<>>
    /\ vertex' = [vertex EXCEPT ![w] = Head(vertexQueue)]
    /\ vertexQueue' = Tail(vertexQueue)
    /\ taken' = [taken EXCEPT ![w] = Append(@, Head(vertexQueue))]
    /\ wPc' = [wPc EXCEPT ![w] = IF ~IsNone(Head(vertexQueue)) THEN "ssc1" ELSE "done"]
    /\ UNCHANGED <<inputVars, coordVars, SSCQueue, adderVars, thresholdExceeded,
                   bigDeltaTC, smallDeltaTC, d, pushed, engVars>>

\* WorkerGet2 without the break on the sentinel.
WorkerGet2NoBreak(w) ==
    /\ wPc[w] = "get2"
    /\ vertexQueue # <<>>
    /\ vertex' = [vertex EXCEPT ![w] = Head(vertexQueue)]
    /\ vertexQueue' = Tail(vertexQueue)
    /\ taken' = [taken EXCEPT ![w] = Append(@, Head(vertexQueue))]
    /\ wPc' = [wPc EXCEPT ![w] = IF ~IsNone(Head(vertexQueue)) THEN "ssc2" ELSE "get2"]
    /\ UNCHANGED <<inputVars, coordVars, SSCQueue, adderVars, thresholdExceeded,
                   bigDeltaTC, smallDeltaTC, d, pushed, engVars>>

\* vertex = vertexQueue.get(block=True) in the second loop (SSC12.py:244-248).
WorkerGet2(w) ==
    /\ wPc[w] = "get2"
    /\ vertexQueue # <<>>
    /\ vertex' = [vertex EXCEPT ![w] = Head(vertexQueue)]
    /\ vertexQueue' = Tail(vertexQueue)
    /\ taken' = [taken EXCEPT ![w] = Append(@, Head(vertexQueue))]
    /\ wPc' = [wPc EXCEPT ![w] = IF ~IsNone(Head(vertexQueue)) THEN "ssc2" ELSE "done"]
    /\ UNCHANGED <<inputVars, coordVars, SSCQueue, adderVars, thresholdExceeded,
                   bigDeltaTC, smallDeltaTC, d, pushed, engVars>>

\* SSCQueue.put(SSC2(...)) on the worker's own buffers (SSC12.py:246).
WorkerSSC2(w) ==
    /\ wPc[w] = "ssc2"
    /\ \E order \in IterOrders(maxVertexNumber) :
          WorkerCallSSC2(w, bigDeltaTC[w], smallDeltaTC[w], d[w], order)
    /\ UNCHANGED <<inputVars, coordVars, vertexQueue, adderVars, vertex,
                   thresholdExceeded, taken, engVars>>

\* ------------------------------------------------- Closure's coordinator
\* CoordGet with "closureSet = ssc" for the union.
CoordGetOverwrite ==
    /\ pc = "loop"
    /\ doneCounter < sourceVertexCount
    /\ SSCQueue # <<>>
    /\ SSCQueue' = Tail(SSCQueue)
    /\ IF IsNone(Head(SSCQueue))
       THEN pc' = "raised" /\ UNCHANGED <<closureSet, doneCounter>>
       ELSE /\ closureSet' = Head(SSCQueue).val
            /\ doneCounter' = doneCounter + 1
            /\ pc' = "check"
    /\ UNCHANGED <<inputVars, vertexQueue, adderVars, workerVars, histVars, engVars>>

\* ssc = SSCQueue.get(); closureSet = closureSet.union(ssc); doneCounter += 1
\* (SSC12.py:191-194). union(None) raises TypeError.
CoordGet ==
    /\ pc = "loop"
    /\ doneCounter < sourceVertexCount
    /\ SSCQueue # <<>>
    /\ SSCQueue' = Tail(SSCQueue)
    /\ IF IsNone(Head(SSCQueue))
       THEN pc' = "raised" /\ UNCHANGED <<closureSet, doneCounter>>
       ELSE /\ closureSet' = closureSet \cup Head(SSCQueue).val
            /\ doneCounter' = doneCounter + 1
            /\ pc' = "check"
    /\ UNCHANGED <<inputVars, vertexQueue, adderVars, workerVars, histVars, engVars>>

\* The daemon processes still running are terminated when the main process
\* exits.
Terminated(p) == IF p \in {"none", "done", "failed", "raised"} THEN p ELSE "terminated"

\* if adderProcess.exitcode is not None and adderProcess.exitcode != 0:
\* exit(1) (SSC12.py:197-199).
CoordCheck ==
    /\ pc = "check"
    /\ IF ~IsNone(exitcode) /\ exitcode.val # 0
       THEN /\ pc' = "exit1"
            /\ wPc' = [w \in WorkerIds |-> Terminated(wPc[w])]
            /\ adderPc' = Terminated(adderPc)
       ELSE /\ pc' = "loop"
            /\ UNCHANGED <<wPc, adderPc>>
    /\ UNCHANGED <<inputVars, closureSet, doneCounter, vertexQueue, SSCQueue,
                   adderTodo, adderI, exitcode, vertex, thresholdExceeded,
                   bigDeltaTC, smallDeltaTC, d, histVars, engVars>>

\* CoordReturn with the loop bounded by cpuCount.
CoordReturnAfterCpuCount ==
    /\ pc = "loop"
    /\ ~(doneCounter < cpuCount)
    /\ pc' = "returned"
    /\ UNCHANGED <<inputVars, closureSet, doneCounter, vertexQueue, SSCQueue,
                   adderVars, workerVars, histVars, engVars>>

\* The while condition fails: return closureSet (SSC12.py:191, 200).
CoordReturn ==
    /\ pc = "loop"
    /\ ~(doneCounter < sourceVertexCount)
    /\ pc' = "returned"
    /\ UNCHANGED <<inputVars, closureSet, doneCounter, vertexQueue, SSCQueue,
                   adderVars, workerVars, histVars, engVars>>

\* Closure has returned: Main writes the result and the main process ends
\* (SSC12.py:392-404). The producer and the workers are daemon processes
\* (SSC12.py:180-185) that Closure never joins: those still running are
\* terminated when the main process exits.
MainExit ==
    /\ pc = "returned"
    /\ pc' = "exited"
    /\ wPc' = [w \in WorkerIds |-> Terminated(wPc[w])]
    /\ adderPc' = Terminated(adderPc)
    /\ UNCHANGED <<inputVars, closureSet, doneCounter, vertexQueue, SSCQueue,
                   adderTodo, adderI, exitcode, vertex, thresholdExceeded,
                   bigDeltaTC, smallDeltaTC, d, histVars, engVars>>

\* ------------------------------------------------------------------- Spec
Adder == AdderPutVertex \/ AdderPutSentinel \/ AdderReturn
Worker(w) == WorkerGet1(w) \/ WorkerSSC1(w) \/ WorkerSwitch(w) \/ WorkerGet2(w)
             \/ WorkerSSC2(w)
Coordinator == CoordGet \/ CoordCheck \/ CoordReturn \/ MainExit

Next ==
    \/ AdderPutVertex
    \/ AdderPutSentinel
    \/ AdderReturn
    \/ AdderFull
    \/ \E w \in Workers : WorkerGet1(w)
    \/ \E w \in Workers : WorkerSSC1(w)
    \/ \E w \in Workers : WorkerSwitch(w)
    \/ \E w \in Workers : WorkerGet2(w)
    \/ \E w \in Workers : WorkerSSC2(w)
    \/ CoordGet
    \/ CoordCheck
    \/ CoordReturn
    \/ MainExit

Spec == Init /\ [][Next]_vars

\* A step of the producer, of a worker or of the coordinator other than a
\* put that raises Full.
Progress == Coordinator \/ Adder \/ (\E w \in Workers : Worker(w))

\* The processes are separate OS processes: while some process can take a
\* step, one of them eventually does. A put is never forced to raise Full.
Fairness == WF_vars(Progress)

\* The runs FairSpec follows to their end are those under the tight
\* thresholds --alpha 1 --beta 1, where both engines come into play.
FairInit == Init /\ alpha = Frac(1, 1) /\ beta = Frac(1, 1)

FairSpec == FairInit /\ [][Next]_vars /\ Fairness

\* ------------------------------------------------------------- EngineSpec
\* One graph as ParseInputfile hands it over, one vertex of it, and one
\* pair of thresholds; no pool.
EngineInit ==
    /\ \E E \in Graphs \ {{}} : InitInputs(E, ParseInputfile(E))
    /\ alpha = None
    /\ beta = None
    /\ cpu = 0
    /\ alphaThreshold \in EngineThresholds
    /\ betaThreshold \in EngineThresholds
    /\ pc = "engine"
    /\ NoPool
    /\ \E s \in 0..(maxVertexNumber - 1) : engSource = PyInt(s)
    /\ engSSC1 = Unset
    /\ engSSC2 = Unset

\* SSC1(adjacentLookup, sourceVertex, alphaThreshold, betaThreshold)
EngineSSC1 ==
    /\ pc = "engine"
    /\ engSSC1 = Unset
    /\ engSSC1' = SSC1(adjacentLookup, engSource.val, alphaThreshold, betaThreshold)
    /\ adjacentLookup' = SSC1Store(adjacentLookup, engSource.val, alphaThreshold,
                                   betaThreshold)
    /\ UNCHANGED <<inputRest, coordVars, vertexQueue, SSCQueue, adderVars, workerVars,
                   histVars, engSource, engSSC2>>

\* SSC2 on buffers allocated as SSCWorker allocates them (SSC12.py:237-242).
EngineSSC2 ==
    /\ pc = "engine"
    /\ engSSC1 # Unset
    /\ engSSC2 = Unset
    /\ \E bits \in BitArrays(maxVertexNumber), order \in IterOrders(maxVertexNumber) :
          LET r == SSC2(adjacentLookup, engSource.val, EmptyArray(maxVertexNumber),
                        EmptyArray(maxVertexNumber), bits, maxVertexNumber, order)
          IN /\ engSSC2' = IF r.raised THEN [tag |-> "raised"] ELSE PySet(r.tc)
             /\ adjacentLookup' = SSC2Store(adjacentLookup, engSource.val,
                                            EmptyArray(maxVertexNumber),
                                            EmptyArray(maxVertexNumber), bits, order)
    /\ UNCHANGED <<inputRest, coordVars, vertexQueue, SSCQueue, adderVars, workerVars,
                   histVars, engSource, engSSC1>>

EngineNext ==
    \/ EngineSSC1
    \/ EngineSSC2

EngineSpec == EngineInit /\ [][EngineNext]_vars

\* ------------------------------------------------------------- RoundsSpec
\* The engines without thresholds, on the graphs of EngineSpec and on the
\* larger graphs whose edges never lead to a smaller id: there a round of
\* SSC2 can append past entries it has still to read.
RoundEdges ==
    {e \in (0..MaxRoundVertexId) \X (0..MaxRoundVertexId) : e[1] <= e[2]}
RoundGraphs ==
    Graphs \cup {E \in SUBSET RoundEdges : Cardinality(E) <= MaxRoundEdges}

RoundsInit ==
    /\ \E E \in RoundGraphs \ {{}} : InitInputs(E, ParseInputfile(E))
    /\ alpha = None
    /\ beta = None
    /\ cpu = 0
    /\ alphaThreshold = Unlimited
    /\ betaThreshold = Unlimited
    /\ pc = "engine"
    /\ NoPool
    /\ \E s \in 0..(maxVertexNumber - 1) : engSource = PyInt(s)
    /\ engSSC1 = Unset
    /\ engSSC2 = Unset

RoundsSpec == RoundsInit /\ [][EngineNext]_vars

\* ================================================================ claims
\* The vertices of the graph, and whether a directed path of at least one
\* edge leads from v back to v.
Vertices == {e[1] : e \in edges} \cup {e[2] : e \in edges}
OnCycle(v) == \E e \in edges : e[1] = v /\ v \in Reach(edges, e[2])
\* What every worker has put so far.
AllPushed == UNION {{pushed[w][i] : i \in 1..Len(pushed[w])} : w \in WorkerIds}

\* C1: when Closure returns normally, the set it returns is the union, over
\* the source vertices s, of the vertices reachable from s (s included):
\* nothing is missing, nothing unreachable is included.
C1_ClosureIsUnionOfReach ==
    pc = "returned" => closureSet = UNION {Reach(edges, s) : s \in sourceVertices}

\* C1 witness: Closure has returned the union of the different closures of
\* several sources, computed by two workers, one of which had switched.
C1_Witness ==
    /\ pc = "returned"
    /\ cpuCount >= 2
    /\ \E w \in Workers : thresholdExceeded[w]
    /\ \A w \in Workers : pushed[w] # <<>>
    /\ \A s \in sourceVertices : Reach(edges, s) # closureSet
    /\ closureSet = UNION {Reach(edges, s) : s \in sourceVertices}

\* C2: whenever SSC1 does not abort, the set it returns is exactly the set
\* of vertices reachable from the source by a directed path of length >= 0.
C2_SSC1IsReach ==
    engSSC1.tag = "set" => engSSC1.val = Reach(edges, engSource.val)

\* C2 witness: SSC1 has returned the closure of a vertex that lies on a
\* cycle, in a graph that also has a vertex it cannot reach.
C2_Witness ==
    /\ engSSC1.tag = "set"
    /\ OnCycle(engSource.val)
    /\ Cardinality(engSSC1.val) >= 2
    /\ Vertices \ engSSC1.val # {}
    /\ engSSC1.val = Reach(edges, engSource.val)

\* C3: for the same graph and source, the set SSC1 returns (when it does
\* not abort) and the set SSC2 returns are equal.
C3_SSC1EqualsSSC2 ==
    (engSSC1.tag = "set" /\ engSSC2 # Unset) => engSSC2 = engSSC1

\* C3 witness: both engines have returned the same closure of three or more
\* vertices that leaves some vertex out.
C3_Witness ==
    /\ engSSC1.tag = "set"
    /\ engSSC2 = engSSC1
    /\ Cardinality(engSSC1.val) >= 3
    /\ Vertices \ engSSC1.val # {}

\* ---------------------------------------------------------------- counting
RECURSIVE Occurrences(_, _)
\* How often x occurs in the sequence q.
Occurrences(q, x) ==
    IF q = <<>> THEN 0
    ELSE (IF Head(q) = x THEN 1 ELSE 0) + Occurrences(Tail(q), x)

RECURSIVE SumOver(_, _)
\* The sum of f[w] over the workers in W.
SumOver(f, W) ==
    IF W = {} THEN 0
    ELSE LET w == CHOOSE x \in W : TRUE IN f[w] + SumOver(f, W \ {w})

\* How often the work item x has been dequeued, by all workers together.
TakenCount(x) == SumOver([w \in WorkerIds |-> Occurrences(taken[w], x)], WorkerIds)
\* How many results have been put for vertex v, by all workers together.
PushCount(v) ==
    SumOver([w \in WorkerIds |->
                Cardinality({i \in 1..Len(pushed[w]) : pushed[w][i].vertex = v})],
            WorkerIds)
\* Worker w has dequeued a vertex and not yet put its result.
Holds(w, v) == wPc[w] \in {"ssc1", "switch", "ssc2"} /\ vertex[w] = PyInt(v)
HeldCount(v) == Cardinality({w \in WorkerIds : Holds(w, v)})

\* C4: each source vertex is dequeued by exactly one worker exactly once and
\* exactly one result is put for it, also when SSC1 aborted on it: at every
\* moment the vertex is in exactly one place (not yet enqueued, in the work
\* queue, or dequeued once), a dequeued vertex is either held by its worker
\* or answered once, only source vertices and sentinels are ever dequeued,
\* and when Closure returns every source vertex has been dequeued once and
\* answered once.
C4_EachVertexOnce ==
    pc # "parse_exit" =>
    /\ \A v \in sourceVertices :
          /\ (IF v \in adderTodo THEN 1 ELSE 0) + Occurrences(vertexQueue, PyInt(v))
             + TakenCount(PyInt(v)) = 1
          /\ pc # "exit1" => PushCount(v) + HeldCount(v) = TakenCount(PyInt(v))
          /\ PushCount(v) <= 1
          /\ pc = "returned" => TakenCount(PyInt(v)) = 1 /\ PushCount(v) = 1
    /\ \A w \in WorkerIds : \A i \in 1..Len(taken[w]) :
          IsNone(taken[w][i]) \/ taken[w][i].val \in sourceVertices
    /\ \A r \in AllPushed : r.vertex \in sourceVertices

\* C4 witness: Closure has returned after two workers shared several source
\* vertices, one of them having switched to SSC2 on a vertex SSC1 aborted
\* on, and every source vertex was dequeued once and answered once.
C4_Witness ==
    /\ pc = "returned"
    /\ cpuCount >= 2
    /\ Cardinality(sourceVertices) >= 2
    /\ \A w \in Workers : pushed[w] # <<>>
    /\ \E w \in Workers : thresholdExceeded[w] /\ pushed[w][1].engine = "SSC2"
    /\ \A v \in sourceVertices : TakenCount(PyInt(v)) = 1 /\ PushCount(v) = 1

\* How many sentinels worker w has dequeued.
SentinelsTaken(w) == Occurrences(taken[w], None)

\* C5: when the producer has completed, the number of sentinels it has put
\* on the work queue equals the number of workers; no worker ever dequeues
\* more than one sentinel, and a worker that has dequeued a sentinel has
\* terminated and dequeued nothing after it, in SSC1 mode and in SSC2 mode.
C5_OneSentinelPerWorker ==
    /\ adderPc = "done" =>
          Occurrences(vertexQueue, None) + TakenCount(None) = cpuCount
    /\ \A w \in WorkerIds :
          /\ SentinelsTaken(w) <= 1
          /\ SentinelsTaken(w) = 1 =>
                /\ wPc[w] = "done"
                /\ IsNone(taken[w][Len(taken[w])])

\* C5 witness: the producer has completed and two workers have each ended
\* on their one sentinel, one still in SSC1 mode and one in SSC2 mode.
C5_Witness ==
    /\ adderPc = "done"
    /\ cpuCount = 2
    /\ vertexQueue = <<>>
    /\ \A w \in Workers : wPc[w] = "done" /\ SentinelsTaken(w) = 1
    /\ \E w \in Workers : thresholdExceeded[w] /\ Len(taken[w]) >= 2
    /\ \E w \in Workers : ~thresholdExceeded[w] /\ Len(taken[w]) >= 2

\* C6: once a worker has set thresholdExceeded it never runs SSC1 again: it
\* is never again at the SSC1 loop, every result it puts after its first
\* SSC2 result is an SSC2 result, and a worker that has put an SSC2 result
\* still has thresholdExceeded set.
C6_StickySwitch ==
    \A w \in WorkerIds :
       /\ thresholdExceeded[w] => wPc[w] \notin {"get1", "ssc1"}
       /\ \A i, j \in 1..Len(pushed[w]) :
             (i < j /\ pushed[w][i].engine = "SSC2") => pushed[w][j].engine = "SSC2"
       /\ (\E i \in 1..Len(pushed[w]) : pushed[w][i].engine = "SSC2")
             => thresholdExceeded[w]

\* C6 witness: a worker that has switched has answered two different
\* vertices with SSC2, the later one dequeued after the switch.
C6_Witness ==
    \E w \in Workers :
       /\ thresholdExceeded[w]
       /\ Len(pushed[w]) >= 2
       /\ pushed[w][Len(pushed[w]) - 1].engine = "SSC2"
       /\ pushed[w][Len(pushed[w])].engine = "SSC2"
       /\ pushed[w][Len(pushed[w]) - 1].vertex # pushed[w][Len(pushed[w])].vertex

\* C7: a threshold violation is invisible in the results: the closure a
\* worker puts for a vertex on which SSC1 aborted equals the closure SSC1
\* returns for that vertex with unlimited thresholds, and no None is ever on
\* the result queue or received by the coordinator.
C7_AbortInvisible ==
    /\ \A r \in AllPushed :
          IsNone(SSC1(adjacentLookup, r.vertex, alphaThreshold, betaThreshold))
             => /\ r.engine = "SSC2"
                /\ r.ssc = SSC1(adjacentLookup, r.vertex, Unlimited, Unlimited)
    /\ \A i \in 1..Len(SSCQueue) : ~IsNone(SSCQueue[i])
    /\ pc # "raised"

\* C7 witness: the coordinator has received the closure, of three or more
\* vertices, that SSC2 recomputed for a vertex on which SSC1 aborted.
C7_Witness ==
    /\ doneCounter >= 1
    /\ SSCQueue = <<>>
    /\ \E r \in AllPushed :
          /\ IsNone(SSC1(adjacentLookup, r.vertex, alphaThreshold, betaThreshold))
          /\ r.engine = "SSC2"
          /\ Cardinality(r.ssc.val) >= 3
          /\ r.ssc = SSC1(adjacentLookup, r.vertex, Unlimited, Unlimited)

RECURSIVE OneWorkerRun(_, _, _)
\* The union of the results of a single worker that is handed the vertices
\* of todo in ascending order: SSC1 until it aborts, SSC2 from then on, on
\* buffers buf = [big, small, d] allocated at the switch and reused.
OneWorkerRun(todo, exceeded, buf) ==
    IF todo = {} THEN {}
    ELSE LET v == SetMin(todo)
             ssc == SSC1(adjacentLookup, v, alphaThreshold, betaThreshold)
             fresh == [big |-> EmptyArray(maxVertexNumber),
                       small |-> EmptyArray(maxVertexNumber),
                       d |-> [i \in 0..(maxVertexNumber - 1) |-> FALSE]]
             b == IF exceeded THEN buf ELSE fresh
             r == SSC2(adjacentLookup, v, b.big, b.small, b.d, maxVertexNumber,
                       Ascending(maxVertexNumber))
         IN IF ~exceeded /\ ~IsNone(ssc)
            THEN ssc.val \cup OneWorkerRun(todo \ {v}, FALSE, buf)
            ELSE r.tc \cup OneWorkerRun(todo \ {v}, TRUE,
                                        [big |-> r.bigDeltaTC, small |-> r.smallDeltaTC,
                                         d |-> r.d])

\* C8: for a fixed graph, source set and thresholds, the set Closure returns
\* is the same for every worker count and every order in which the workers
\* dequeue vertices and the coordinator dequeues results: every run returns
\* what the run of one worker that takes the vertices in ascending order
\* returns.
C8_SameAsOneWorkerRun ==
    pc = "returned" => closureSet = OneWorkerRun(sourceVertices, FALSE, <<>>)

\* C8 witness: Closure has returned from a run of two workers in which the
\* largest source vertex was dequeued first, only one of the workers
\* switched to SSC2, and the results reached the coordinator in another
\* order than the vertices were dequeued.
C8_Witness ==
    /\ pc = "returned"
    /\ cpuCount = 2
    /\ Cardinality(sourceVertices) >= 2
    /\ \E w \in Workers : taken[w] # <<>> /\ taken[w][1] = PyInt(SetMax(sourceVertices))
    /\ \E w \in Workers : thresholdExceeded[w] /\ pushed[w] # <<>>
    /\ \E w \in Workers : ~thresholdExceeded[w] /\ pushed[w] # <<>>
    /\ closureSet = OneWorkerRun(sourceVertices, FALSE, <<>>)

\* How many results have left the result queue.
Drained == SumOver([w \in WorkerIds |-> Len(pushed[w])], WorkerIds) - Len(SSCQueue)

\* C9: in a run with a non-empty source set in which no put of the producer
\* fails, under fair scheduling of the processes, the coordinator dequeues
\* from the result queue exactly |sourceVertices| times and then returns: it
\* returns only after exactly |sourceVertices| results have left the result
\* queue, and it does eventually return (it is never blocked for ever on an
\* empty result queue).
C9_CoordinatorDrainsAndReturns ==
    /\ [](pc = "returned" =>
             doneCounter = sourceVertexCount /\ Drained = sourceVertexCount)
    /\ ((pc # "parse_exit" /\ sourceVertices # {} /\ [](adderPc # "failed"))
           => <>(pc = "returned"))

\* C9 witness: without any enqueue failure the coordinator has returned
\* after draining one result per source vertex of a run with several
\* sources.
C9_Witness ==
    /\ pc = "returned"
    /\ adderPc = "done"
    /\ Cardinality(sourceVertices) >= 2
    /\ doneCounter = Cardinality(sourceVertices)
    /\ Drained = doneCounter

\* C10: if a put of the producer raises Full, the coordinator eventually
\* reaches exit(1) and does not stay blocked on the result queue: as long as
\* the producer has failed and the coordinator has not reached exit(1), the
\* coordinator or some worker can still take a step.
C10_FailureReachesExit ==
    (~IsNone(exitcode) /\ exitcode.val # 0 /\ pc # "exit1") =>
       (ENABLED Coordinator \/ \E w \in Workers : ENABLED Worker(w))

\* C11: in every run in which the producer fails with Full, Closure never
\* returns normally, whenever the coordinator looks at the exit code: once
\* the producer has failed, no step of the coordinator is the return of
\* closureSet.
C11_FullNeverReturns ==
    [][adderPc = "failed" => pc' # "returned"]_vars

\* C12: no partial aggregate is ever returned: whenever Closure has returned
\* a set, the set contains the closure of every source vertex, and the
\* producer had enqueued every source vertex (a producer that failed before
\* that leaves Closure without a result).
C12_NoPartialAggregate ==
    pc = "returned" =>
       /\ \A s \in sourceVertices : Reach(edges, s) \subseteq closureSet
       /\ adderTodo = {}

\* C12 witness: Closure has returned the complete aggregate of several
\* sources in a run whose producer failed with Full on a sentinel.
C12_Witness ==
    /\ pc = "returned"
    /\ adderPc = "failed"
    /\ Cardinality(sourceVertices) >= 2
    /\ \A s \in sourceVertices : Reach(edges, s) \subseteq closureSet

\* C13: for every input graph in which no vertex lacks an incoming edge, the
\* loader ends the run with a fatal error and Closure is never invoked (in
\* particular never with an empty sourceVertices set).
C13_NoSourcesIsFatal ==
    {v \in Vertices : \A e \in edges : e[2] # v} = {} => pc = "parse_exit"

\* ------------------------------------------------------- switching point
\* x <= y for two thresholds.
FracLeq(x, y) == x[1] * y[2] <= y[1] * x[2]

\* The first of the iterations steps at whose start the thresholds are
\* violated (1 for the first), 0 when none is.
FirstViolated(lookup, steps, aThreshold, bThreshold) ==
    LET bad == {k \in 1..Len(steps) :
                   ThresholdsViolated(lookup, steps[k], aThreshold, bThreshold)}
    IN IF bad = {} THEN 0 ELSE SetMin(bad)

\* The iterations of SSC1 on each vertex.
AllSteps(lookup) ==
    [v \in 0..(maxVertexNumber - 1) |-> ExpansionSteps(lookup, {v}, {v})]

\* The iteration at which SSC1 aborts on each vertex under given
\* thresholds, 0 where it does not abort.
AbortSteps(lookup, steps, aThreshold, bThreshold) ==
    [v \in DOMAIN steps |-> FirstViolated(lookup, steps[v], aThreshold, bThreshold)]

\* Where a worker in SSC1 mode that is handed the vertices of seq in turn
\* switches, given the iteration at which SSC1 aborts on each vertex:
\* <<i, k>> for iteration k of SSC1 on seq[i], and <<Len(seq) + 1, 0>> when
\* it does not switch.
SwitchPoint(abortAt, seq) ==
    LET at == {i \in 1..Len(seq) : abortAt[seq[i]] > 0}
    IN IF at = {} THEN <<Len(seq) + 1, 0>>
       ELSE <<SetMin(at), abortAt[seq[SetMin(at)]]>>

\* p is the same point as q or an earlier one.
NotLater(p, q) == p[1] < q[1] \/ (p[1] = q[1] /\ p[2] <= q[2])

\* The sequences of at most MaxHanded distinct vertices of the graph.
HandedSeqs ==
    UNION {{seq \in [1..n -> 0..(maxVertexNumber - 1)] :
               \A i, j \in 1..n : i # j => seq[i] # seq[j]} : n \in 1..MaxHanded}

\* The pairs of thresholds that are no larger than those of the run.
Tighter ==
    {t \in EngineThresholds \X EngineThresholds :
        FracLeq(t[1], alphaThreshold) /\ FracLeq(t[2], betaThreshold)}

\* The sequences of HandedSeqs on which a worker switches at the last
\* vertex, which is the vertex SSC1 was called on.
SwitchingSeqs(abortAt) ==
    {seq \in HandedSeqs :
        seq[Len(seq)] = engSource.val /\ SwitchPoint(abortAt, seq)[1] = Len(seq)}

\* C14: threshold monotonicity. SSC1 aborts on a vertex exactly when one of
\* its iterations violates the thresholds; and when it has aborted, for
\* every sequence of vertices handed to a worker on which the worker
\* switches at this vertex under the thresholds of the run, the worker
\* switches at the same or an earlier vertex and iteration, never later,
\* under any thresholds that are no larger.
C14_TighterSwitchesNoLater ==
    (engSSC1 # Unset /\ engSSC2 = Unset) =>
       LET steps == AllSteps(adjacentLookup)
           loose == AbortSteps(adjacentLookup, steps, alphaThreshold, betaThreshold)
       IN /\ IsNone(engSSC1) <=> loose[engSource.val] > 0
          /\ IsNone(engSSC1) =>
                \A t \in Tighter :
                   LET tight == AbortSteps(adjacentLookup, steps, t[1], t[2])
                   IN \A seq \in SwitchingSeqs(loose) :
                         NotLater(SwitchPoint(tight, seq), SwitchPoint(loose, seq))

\* C14 witness: SSC1 has aborted in a later iteration than the first, on a
\* vertex that comes second in a sequence whose first vertex SSC1 completes,
\* and under some tighter thresholds the worker switches strictly earlier:
\* already at the first vertex.
C14_Witness ==
    /\ IsNone(engSSC1)
    /\ engSSC2 = Unset
    /\ LET steps == AllSteps(adjacentLookup)
           loose == AbortSteps(adjacentLookup, steps, alphaThreshold, betaThreshold)
       IN /\ loose[engSource.val] >= 2
          /\ \E seq \in SwitchingSeqs(loose), t \in Tighter :
                /\ Len(seq) = 2
                /\ SwitchPoint(AbortSteps(adjacentLookup, steps, t[1], t[2]), seq)[1] = 1

\* ------------------------------------------------------- reused buffers
\* What SSC2 returns for sourceVertex on buffers allocated afresh with every
\* bit cleared.
FreshSSC2(sourceVertex) ==
    SSC2(adjacentLookup, sourceVertex, EmptyArray(maxVertexNumber),
         EmptyArray(maxVertexNumber), [i \in 0..(maxVertexNumber - 1) |-> FALSE],
         maxVertexNumber, Ascending(maxVertexNumber))

\* The results worker w has put that SSC2 computed.
SSC2Pushes(w) == SelectSeq(pushed[w], LAMBDA p : p.engine = "SSC2")

\* C15: whatever the worker's three buffers hold when SSC2 is called on a
\* source (the uninitialised bits of a new bit array, or what earlier SSC2
\* calls of the same worker on other sources left in them), no call raises
\* and every call returns the set that SSC2 returns for that source on
\* fresh, cleared buffers: computing it again yields the identical set.
C15_SSC2IgnoresBufferContents ==
    /\ \A w \in Workers : wPc[w] # "raised"
    /\ \A w \in Workers : \A i \in 1..Len(SSC2Pushes(w)) :
          SSC2Pushes(w)[i].ssc = PySet(FreshSSC2(SSC2Pushes(w)[i].vertex).tc)

\* C15 witness: a worker has put two results computed by SSC2 on the same
\* buffers, the second for a source whose closure leaves out a vertex that
\* the first call had marked as visited.
C15_Witness ==
    \E w \in Workers :
       /\ Len(SSC2Pushes(w)) >= 2
       /\ SSC2Pushes(w)[1].ssc.val \ SSC2Pushes(w)[2].ssc.val # {}
       /\ SSC2Pushes(w)[2].ssc = PySet(FreshSSC2(SSC2Pushes(w)[2].vertex).tc)

\* ------------------------------------------------------------- sentinel
\* The vertex ids among the work items worker w has dequeued.
VerticesTaken(w) == SelectSeq(taken[w], LAMBDA x : x.tag = "int")

\* C16: a vertex id is never taken for the sentinel, nor the sentinel for a
\* vertex. A worker that has ended normally has dequeued the sentinel last
\* and only vertex ids before it; a worker at work on an item holds a vertex
\* id; and every vertex id a running worker has dequeued, vertex 0 included,
\* has been answered with a result, in the order of dequeuing, but for the
\* one the worker is at work on.
C16_SentinelIsNotAVertex ==
    \A w \in Workers :
       /\ wPc[w] = "done" =>
             /\ taken[w] # <<>>
             /\ taken[w][Len(taken[w])] = None
       /\ \A i \in 1..(Len(taken[w]) - 1) : taken[w][i].tag = "int"
       /\ wPc[w] \in {"ssc1", "switch", "ssc2"} =>
             /\ taken[w] # <<>>
             /\ vertex[w].tag = "int"
             /\ vertex[w] = taken[w][Len(taken[w])]
       /\ wPc[w] \notin {"terminated", "raised"} =>
             /\ Len(VerticesTaken(w))
                   = Len(pushed[w]) + (IF wPc[w] \in {"ssc1", "switch", "ssc2"} THEN 1 ELSE 0)
             /\ \A i \in 1..Len(pushed[w]) : pushed[w][i].vertex = VerticesTaken(w)[i].val

\* C16 witness: a worker has dequeued vertex 0, put its closure, gone on to
\* dequeue another vertex and put its closure too, and ended on the sentinel.
C16_Witness ==
    \E w \in Workers :
       /\ wPc[w] = "done"
       /\ Len(taken[w]) = 3
       /\ taken[w][1] = PyInt(0)
       /\ taken[w][3] = None
       /\ Len(pushed[w]) = 2
       /\ pushed[w][1].vertex = 0

\* ---------------------------------------------------------------- abort
\* The costs at the start of the iterations of SSC1 on the engine's vertex.
StepCosts ==
    LET steps == ExpansionSteps(adjacentLookup, {engSource.val}, {engSource.val})
    IN [k \in 1..Len(steps) |->
           ComputeSSC1Cost(adjacentLookup, steps[k].bigDeltaTC, steps[k].tc)]

\* The cost c is strictly greater than the threshold t.
StrictlyGreater(c, t) == c * t[2] > t[1]

\* C17: SSC1 returns None if and only if, at the start of some iteration
\* with a non-empty frontier (the first included), costSmallDelta is
\* strictly greater than alphaThreshold or costBigDelta is strictly greater
\* than betaThreshold; a cost equal to its threshold does not abort.
C17_AbortIffCostExceeds ==
    engSSC1 # Unset =>
       (IsNone(engSSC1) <=>
           \E k \in DOMAIN StepCosts :
              \/ StrictlyGreater(StepCosts[k][1], alphaThreshold)
              \/ StrictlyGreater(StepCosts[k][2], betaThreshold))

\* C17 witness: SSC1 has returned a closure after several iterations, in
\* one of which costSmallDelta was equal to alphaThreshold and in one of
\* which costBigDelta was equal to betaThreshold.
C17_Witness ==
    /\ engSSC1.tag = "set"
    /\ Len(StepCosts) >= 2
    /\ \E k \in DOMAIN StepCosts : StepCosts[k][1] * alphaThreshold[2] = alphaThreshold[1]
    /\ \E k \in DOMAIN StepCosts : StepCosts[k][2] * betaThreshold[2] = betaThreshold[1]

\* ----------------------------------------------------------------- costs
\* The number of edges of the graph that leave v.
OutDegree(v) == Cardinality({e \in edges : e[1] = v})

\* C18: for every closure-so-far and every frontier within it,
\* ComputeSSC1Cost returns costSmallDelta = (the sum over the frontier of
\* the out-degrees, 0 for a vertex without outgoing edges) + |closureSoFar|
\* * |frontier| and costBigDelta = |closureSoFar| + |frontier|.
C18_CostFormulas ==
    (engSSC1 # Unset /\ engSSC2 = Unset) =>
       \A tc \in SUBSET (0..(maxVertexNumber - 1)) : \A frontier \in SUBSET tc :
          ComputeSSC1Cost(adjacentLookup, frontier, tc)
             = <<SumOver([v \in frontier |-> OutDegree(v)], frontier)
                    + Cardinality(tc) * Cardinality(frontier),
                 Cardinality(tc) + Cardinality(frontier)>>

\* C18 witness: SSC1 has run through an iteration whose frontier holds two
\* or more vertices, one of them without outgoing edges, and whose costs
\* are those of the formulas.
C18_Witness ==
    /\ engSSC1 # Unset
    /\ engSSC2 = Unset
    /\ \E step \in {ExpansionSteps(adjacentLookup, {engSource.val}, {engSource.val})[k] :
                      k \in DOMAIN StepCosts} :
          /\ Cardinality(step.bigDeltaTC) >= 2
          /\ \E v \in step.bigDeltaTC : OutDegree(v) = 0
          /\ \E v \in step.bigDeltaTC : OutDegree(v) > 0
          /\ ComputeSSC1Cost(adjacentLookup, step.bigDeltaTC, step.tc)
                = <<SumOver([v \in step.bigDeltaTC |-> OutDegree(v)], step.bigDeltaTC)
                       + Cardinality(step.tc) * Cardinality(step.bigDeltaTC),
                    Cardinality(step.tc) + Cardinality(step.bigDeltaTC)>>

\* ----------------------------------------------------------- vertex count
\* C19: the thresholds of the workers are |V| / alpha and |V| / beta for |V|
\* the number of distinct vertices of the graph: the vertex count handed to
\* Closure is the number of distinct vertex ids that occur in any edge,
\* those with both incoming and outgoing edges included.
C19_ThresholdsFromVertexCount ==
    pc # "parse_exit" =>
       /\ nrOfVertices = Cardinality(Vertices)
       /\ alphaThreshold = IntDivFrac(Cardinality(Vertices), alpha)
       /\ betaThreshold = IntDivFrac(Cardinality(Vertices), beta)

\* ----------------------------------------------------------------- modes
\* Worker w has no SSC2 buffers.
NoBuffers(w) == bigDeltaTC[w] = <<>> /\ smallDeltaTC[w] = <<>> /\ d[w] = <<>>

\* A worker that has not switched is in its first loop or has ended from
\* it, has no buffers and has put no SSC2 result; one that has switched and
\* is past the allocation has its three buffers, of maxVertexNumber entries.
SSC1ModeHasNoBuffers ==
    \A w \in Workers :
       /\ ~thresholdExceeded[w] =>
             /\ wPc[w] \in {"get1", "ssc1", "done", "terminated"}
             /\ NoBuffers(w)
             /\ SSC2Pushes(w) = <<>>
       /\ thresholdExceeded[w] =>
             IF wPc[w] = "switch" \/ (wPc[w] = "terminated" /\ bigDeltaTC[w] = <<>>)
             THEN NoBuffers(w)
             ELSE /\ DOMAIN bigDeltaTC[w] = 0..(maxVertexNumber - 1)
                  /\ DOMAIN smallDeltaTC[w] = 0..(maxVertexNumber - 1)
                  /\ DOMAIN d[w] = 0..(maxVertexNumber - 1)

\* A step sets thresholdExceeded of a worker only when SSC1 has just
\* returned None for the vertex the worker holds, and leads to the
\* allocation; no step clears it; a worker comes to the allocation only by
\* such a step; and buffers appear only in the step of the allocation.
SwitchOnlyOnAbort ==
    \A w \in Workers :
       /\ thresholdExceeded'[w] # thresholdExceeded[w] =>
             /\ ~thresholdExceeded[w]
             /\ wPc[w] = "ssc1"
             /\ IsNone(SSC1(adjacentLookup, vertex[w].val, alphaThreshold, betaThreshold))
             /\ wPc'[w] = "switch"
       /\ (wPc'[w] = "switch" /\ wPc[w] # "switch") => ~thresholdExceeded[w]
       /\ (NoBuffers(w) /\ ~NoBuffers(w)') => wPc[w] = "switch"
       /\ ~NoBuffers(w) =>
             /\ DOMAIN bigDeltaTC'[w] = DOMAIN bigDeltaTC[w]
             /\ wPc'[w] # "switch"

\* C20: every worker starts in SSC1 mode; its switch to SSC2 mode fires at
\* most once and only as the immediate consequence of a None from SSC1; the
\* SSC2 buffers are allocated at that moment and at most once per worker; a
\* worker whose SSC1 calls never abort never allocates buffers and never
\* puts a result computed by SSC2.
C20_SwitchOnceOnAbort ==
    /\ (pc = "loop" => \A w \in Workers : ~thresholdExceeded[w] /\ wPc[w] = "get1")
    /\ []SSC1ModeHasNoBuffers
    /\ [][SwitchOnlyOnAbort]_vars

\* C20 witness: of two workers that have both ended on their sentinel, one
\* has switched on an abort, allocated its buffers and put an SSC2 result
\* with them, and the other has put a result without ever switching or
\* allocating.
C20_Witness ==
    /\ cpuCount = 2
    /\ \A w \in Workers : wPc[w] = "done"
    /\ \E w \in Workers :
          thresholdExceeded[w] /\ ~NoBuffers(w) /\ SSC2Pushes(w) # <<>>
    /\ \E w \in Workers :
          ~thresholdExceeded[w] /\ NoBuffers(w) /\ pushed[w] # <<>>

\* ---------------------------------------------------------------- rounds
\* The rounds of SSC2 on the engine's vertex, on buffers allocated as
\* SSCWorker allocates them, d cleared as SSC2 clears it.
EngineRounds(order) ==
    SSC2Rounds(adjacentLookup,
               [EmptyArray(maxVertexNumber) EXCEPT ![0] = engSource.val], 1,
               [small |-> EmptyArray(maxVertexNumber),
                d |-> [[i \in 0..(maxVertexNumber - 1) |-> FALSE]
                          EXCEPT ![engSource.val] = TRUE],
                l |-> 0, raised |-> FALSE],
               order)

\* C21: with maxVertexNumber the largest vertex id of any edge plus one and
\* the three buffers of that size, every buffer access of SSC2 is in bounds:
\* no call raises an IndexError, and in every round the L entries read from
\* bigDeltaTC satisfy L <= maxVertexNumber and hold vertex ids in
\* [0, maxVertexNumber), which index d, and at most maxVertexNumber - 1
\* entries are appended to smallDeltaTC.
C21_BufferAccessInBounds ==
    engSSC2 # Unset =>
       /\ maxVertexNumber = SetMax(Vertices) + 1
       /\ engSSC2.tag # "raised"
       /\ \A order \in IterOrders(maxVertexNumber) :
             \A k \in DOMAIN EngineRounds(order) :
                LET r == EngineRounds(order)[k]
                IN /\ ~r.raised
                   /\ DOMAIN r.bigDeltaTC = 0..(maxVertexNumber - 1)
                   /\ DOMAIN r.smallDeltaTC = 0..(maxVertexNumber - 1)
                   /\ DOMAIN r.d = 0..(maxVertexNumber - 1)
                   /\ 1 <= r.L /\ r.L <= maxVertexNumber
                   /\ \A i \in 0..(r.L - 1) : r.bigDeltaTC[i] \in 0..(maxVertexNumber - 1)
                   /\ r.l <= maxVertexNumber - 1

\* C21 witness: SSC2 has returned the closure of a vertex in one of whose
\* rounds maxVertexNumber - 1 vertices were appended to smallDeltaTC, the
\* vertex of the largest id among them.
C21_Witness ==
    /\ engSSC2.tag = "set"
    /\ maxVertexNumber = MaxVertexId + 1
    /\ \E k \in DOMAIN EngineRounds(Ascending(maxVertexNumber)) :
          LET r == EngineRounds(Ascending(maxVertexNumber))[k]
          IN /\ r.l = maxVertexNumber - 1
             /\ r.smallDeltaTC[r.l - 1] = maxVertexNumber - 1

\* The entries of bigDeltaTC a round reads, in the order it reads them.
Active(r) == [i \in 1..r.L |-> r.bigDeltaTC[i - 1]]
\* The entries appended to smallDeltaTC in a round, in the order of appending.
Appended(r) == [i \in 1..r.l |-> r.smallDeltaTC[i - 1]]
\* The vertices whose bit is set.
Marked(bits) == {i \in DOMAIN bits : bits[i]}
\* The vertices not marked before round r that the entry read at index i
\* leads to.
NewFrom(r, i) == DictGet(adjacentLookup, r.bigDeltaTC[i], {}) \ Marked(r.d)

\* C22: SSC2 proceeds round by round like SSC1. It makes as many rounds as
\* SSC1 makes iterations; at the start of every round the L entries of
\* bigDeltaTC are pairwise distinct and, as a set, are SSC1's frontier of
\* that iteration, and the marked bits of d are SSC1's tc; and the entries a
\* round reads are the entries the round before appended, in the order of
\* appending: appending to smallDeltaTC has overwritten none of them.
C22_SSC2RoundsAreSSC1Rounds ==
    engSSC2 # Unset =>
       \A order \in IterOrders(maxVertexNumber) :
          LET rounds == EngineRounds(order)
              steps == ExpansionSteps(adjacentLookup, {engSource.val}, {engSource.val})
          IN /\ Len(rounds) = Len(steps)
             /\ \A k \in DOMAIN rounds :
                   /\ \A i, j \in 1..rounds[k].L :
                         i # j => Active(rounds[k])[i] # Active(rounds[k])[j]
                   /\ {Active(rounds[k])[i] : i \in 1..rounds[k].L} = steps[k].bigDeltaTC
                   /\ Marked(rounds[k].d) = steps[k].tc
                   /\ k > 1 => Active(rounds[k]) = Appended(rounds[k - 1])
             /\ engSSC2 = PySet(steps[Len(steps)].tc)

\* C22 witness: SSC2 has returned after a round that read two or more
\* entries and in which the first entry read led to two or more new
\* vertices, so that the second append went to the index of an entry the
\* round had still to read; the entries read were those of SSC1's frontier.
C22_Witness ==
    /\ engSSC2.tag = "set"
    /\ \E k \in DOMAIN EngineRounds(Ascending(maxVertexNumber)) :
          LET r == EngineRounds(Ascending(maxVertexNumber))[k]
          IN /\ r.L >= 2
             /\ Cardinality(NewFrom(r, 0)) >= 2
             /\ {Active(r)[i] : i \in 1..r.L}
                   = ExpansionSteps(adjacentLookup, {engSource.val},
                                    {engSource.val})[k].bigDeltaTC

\* ----------------------------------------------------------- termination
\* The iterations of SSC1's loop on the engine's vertex.
EngineSteps == ExpansionSteps(adjacentLookup, {engSource.val}, {engSource.val})

\* C23: every engine call ends, on cyclic graphs and self-loops too. SSC1
\* has returned a closure or None, after at most |V| iterations, tc growing
\* strictly from each iteration to the next; SSC2 has returned a closure,
\* after at most |V| rounds, each round that leaves L # 0 having marked at
\* least one new vertex and the last one leaving L = 0.
C23_EnginesTerminate ==
    /\ engSSC1 # Unset =>
          /\ IsNone(engSSC1) \/ engSSC1 = PySet(EngineSteps[Len(EngineSteps)].tc)
          /\ Len(EngineSteps) <= Cardinality(Vertices)
          /\ \A k \in 1..(Len(EngineSteps) - 1) :
                /\ EngineSteps[k].tc \subseteq EngineSteps[k + 1].tc
                /\ EngineSteps[k].tc # EngineSteps[k + 1].tc
    /\ engSSC2 # Unset =>
          /\ engSSC2.tag = "set"
          /\ \A order \in IterOrders(maxVertexNumber) :
                LET rounds == EngineRounds(order)
                IN /\ Len(rounds) <= Cardinality(Vertices)
                   /\ rounds[Len(rounds)].l = 0
                   /\ \A k \in 1..(Len(rounds) - 1) :
                         /\ rounds[k].l # 0
                         /\ Marked(rounds[k].d) \subseteq Marked(rounds[k + 1].d)
                         /\ Marked(rounds[k].d) # Marked(rounds[k + 1].d)

\* C23 witness: both engines have returned the closure of a vertex that
\* lies on a cycle through every vertex of the graph, SSC1 after exactly
\* |V| iterations.
C23_Witness ==
    /\ engSSC1.tag = "set"
    /\ engSSC2 = engSSC1
    /\ OnCycle(engSource.val)
    /\ Cardinality(Vertices) >= 3
    /\ engSSC1.val = Vertices
    /\ Len(EngineSteps) = Cardinality(Vertices)

\* The vertices worker w has dequeued and not yet answered with a result.
Outstanding(w) == Len(VerticesTaken(w)) - Len(pushed[w])
\* Worker w dequeues its next work item in this step.
Dequeues(w) == taken'[w] # taken[w]
\* Worker w puts a result in this step.
Puts(w) == pushed'[w] # pushed[w]

\* C24: a worker finishes the vertex it started. A worker that is between
\* two work items or has ended on its sentinel has answered every vertex it
\* dequeued; a worker at work has exactly the vertex it holds outstanding;
\* the i-th result it put is the complete closure of the i-th vertex it
\* dequeued; it dequeues (a vertex or the sentinel) only with nothing
\* outstanding; and the step that follows an SSC1 abort keeps the vertex.
\* Workers ended by the exit(1) of the main process are not steps of the
\* worker and are left out.
C24_WorkerFinishesItsVertex ==
    /\ [](pc \notin {"parse_exit", "exit1"} =>
            \A w \in Workers :
               /\ wPc[w] \in {"get1", "get2", "done"} => Outstanding(w) = 0
               /\ wPc[w] \in {"ssc1", "switch", "ssc2"} =>
                     /\ Outstanding(w) = 1
                     /\ vertex[w] = VerticesTaken(w)[Len(VerticesTaken(w))]
               /\ wPc[w] # "raised"
               /\ \A i \in 1..Len(pushed[w]) :
                     /\ pushed[w][i].vertex = VerticesTaken(w)[i].val
                     /\ pushed[w][i].ssc = PySet(Reach(edges, pushed[w][i].vertex)))
    /\ [][\A w \in Workers :
             /\ Dequeues(w) => Outstanding(w) = 0
             /\ (wPc[w] = "ssc1" /\ wPc'[w] # "ssc1" /\ ~Puts(w)) =>
                   /\ wPc'[w] \in {"switch", "terminated"}
                   /\ vertex'[w] = vertex[w]
             /\ (wPc[w] = "switch" /\ wPc'[w] \notin {"switch", "terminated"}) =>
                   /\ Puts(w)
                   /\ pushed'[w][Len(pushed'[w])].vertex = vertex[w].val]_vars

\* C24 witness: a worker has ended on its sentinel after three work items;
\* SSC1 aborted on the first vertex, whose closure the worker then put as
\* an SSC2 result before it dequeued the second.
C24_Witness ==
    \E w \in Workers :
       /\ wPc[w] = "done"
       /\ Len(taken[w]) = 3
       /\ Len(pushed[w]) = 2
       /\ pushed[w][1].engine = "SSC2"
       /\ pushed[w][1].vertex = taken[w][1].val
       /\ pushed[w][1].ssc = PySet(Reach(edges, taken[w][1].val))

\* The closures the coordinator has drained: those put and no longer queued.
\* SSCQueue is FIFO, so what is still queued is what was put last; the set
\* of drained closures is every set put less one occurrence per set queued.
PutCount(ssc) ==
    SumOver([w \in WorkerIds |->
                Cardinality({i \in 1..Len(pushed[w]) : pushed[w][i].ssc = ssc})],
            WorkerIds)
DrainedSets == {p.ssc : p \in {q \in AllPushed : PutCount(q.ssc) > Occurrences(SSCQueue, q.ssc)}}

\* C25: the coordinator's aggregate only grows. In every state of a run the
\* aggregate is the union of the closures drained so far, each of its
\* elements is reachable from a source vertex, and doneCounter is the number
\* of results drained and at most |sourceVertices|; in every step the new
\* aggregate contains the old one, doneCounter never decreases, and a step
\* that drains a closure adds exactly that closure and counts it once.
C25_AggregateOnlyGrows ==
    /\ [](pc # "parse_exit" =>
            /\ closureSet = UNION {s.val : s \in DrainedSets}
            /\ closureSet \subseteq UNION {Reach(edges, s) : s \in sourceVertices}
            /\ doneCounter = Drained
            /\ doneCounter <= Cardinality(sourceVertices))
    /\ [][pc # "parse_exit" =>
            /\ closureSet \subseteq closureSet'
            /\ doneCounter' >= doneCounter
            /\ (SSCQueue # <<>> /\ SSCQueue' = Tail(SSCQueue)) =>
                  /\ closureSet' = closureSet \cup Head(SSCQueue).val
                  /\ doneCounter' = doneCounter + 1]_vars

\* C25 witness: the coordinator has drained at least two different closures
\* neither of which contains the other, and the aggregate is their union.
C25_Witness ==
    /\ doneCounter >= 2
    /\ doneCounter = Drained
    /\ \E a \in DrainedSets, b \in DrainedSets :
          /\ ~(a.val \subseteq b.val)
          /\ ~(b.val \subseteq a.val)
          /\ closureSet = UNION {s.val : s \in DrainedSets}

\* C26: no engine call changes the adjacency store. Every step of the
\* engines (a call of SSC1, with its calls of ComputeSSC1Cost and
\* GetAllAdjacentNodesFromSet, or a call of SSC2) leaves adjacentLookup as
\* it was: no key is added, vertices without outgoing edges included, and
\* no successor set gains or loses an element; so the store stays the one
\* ParseInputfile built, whose keys are the vertices with outgoing edges.
C26_EnginesLeaveStoreUnchanged ==
    /\ [][/\ DOMAIN adjacentLookup' = DOMAIN adjacentLookup
          /\ \A v \in DOMAIN adjacentLookup : adjacentLookup'[v] = adjacentLookup[v]]_vars
    /\ [](/\ adjacentLookup = ParseInputfile(edges).adjacentLookup
          /\ DOMAIN adjacentLookup = {e[1] : e \in edges}
          /\ \A v \in DOMAIN adjacentLookup : adjacentLookup[v] # {})

\* C26 witness: both engines have computed a closure that holds a vertex
\* without outgoing edges, which they looked up with a default, and that
\* vertex is still not a key of the store.
C26_Witness ==
    /\ engSSC1.tag = "set"
    /\ engSSC2.tag = "set"
    /\ \E v \in engSSC1.val : v # engSource.val /\ v \notin DOMAIN adjacentLookup
    /\ \E v \in engSSC2.val : v \notin DOMAIN adjacentLookup
    /\ adjacentLookup = ParseInputfile(edges).adjacentLookup

\* The source vertices the producer has not put yet or that are still in
\* the work queue.
Waiting == adderTodo \cup {v \in sourceVertices : Occurrences(vertexQueue, PyInt(v)) > 0}
\* The position in the work queue of its first sentinel, 0 without one.
FirstSentinel ==
    IF \E i \in 1..Len(vertexQueue) : IsNone(vertexQueue[i])
    THEN CHOOSE i \in 1..Len(vertexQueue) :
            /\ IsNone(vertexQueue[i])
            /\ \A j \in 1..(i - 1) : ~IsNone(vertexQueue[j])
    ELSE 0

\* C27: the producer puts every source vertex before any sentinel and the
\* work queue is first-in first-out. So a sentinel is in the queue only when
\* the producer has no vertex left to put, and only sentinels follow it; a
\* worker that dequeues a sentinel does so with no source vertex waiting;
\* and whenever some worker has dequeued a sentinel or ended on one, every
\* source vertex has been dequeued by some worker.
C27_SentinelsAfterAllVertices ==
    /\ [](pc # "parse_exit" =>
            /\ FirstSentinel # 0 =>
                  /\ adderTodo = {}
                  /\ \A j \in FirstSentinel..Len(vertexQueue) : IsNone(vertexQueue[j])
            /\ (\E w \in Workers : SentinelsTaken(w) > 0 \/ wPc[w] = "done") =>
                  /\ Waiting = {}
                  /\ \A v \in sourceVertices : TakenCount(PyInt(v)) = 1)
    /\ [][\A w \in Workers :
             (Dequeues(w) /\ IsNone(Head(vertexQueue))) => Waiting = {}]_vars

\* C27 witness: the workers were all waiting on the empty queue before the
\* producer put anything; now the first of two workers has ended on its
\* sentinel, the other is still running, and each of at least two source
\* vertices has been dequeued.
C27_Witness ==
    /\ cpuCount = 2
    /\ Cardinality(sourceVertices) >= 2
    /\ \E w \in Workers : wPc[w] = "done" /\ SentinelsTaken(w) = 1
    /\ \E w \in Workers : wPc[w] \in {"get1", "get2", "ssc1", "switch", "ssc2"}
    /\ Waiting = {}
    /\ \A v \in sourceVertices : TakenCount(PyInt(v)) = 1

\* C28: in a run without an enqueue failure every spawned worker ends by
\* dequeuing a sentinel, and none is left waiting on the work queue. After
\* the main process has exited no process takes a step any more, so by then
\* every worker has dequeued its one sentinel and returned, and the work
\* queue holds neither a vertex nor a sentinel.
C28_EveryWorkerEndsOnSentinel ==
    (pc = "exited" /\ adderPc # "failed") =>
       /\ \A w \in Workers : wPc[w] = "done" /\ SentinelsTaken(w) = 1
       /\ vertexQueue = <<>>

=============================================================================
